---- MODULE Spec2Model ----
(***************************************************************************)
(* Model of the storefront presentation components:                        *)
(*   - ZoomModal          (src/app/components/product/media-zoom.tsx)      *)
(*   - Cart and its parts (src/app/components/product/media-zoom.tsx)      *)
(*   - CartLinePrice      (src/app/components/product/media-zoom.tsx)      *)
(*   - Footer, FooterMenu (src/app/components/layout/footer.tsx)           *)
(* The components are mounted independently, so each has its own           *)
(* specification (SpecZoom, SpecCart, SpecPrice, SpecFooter, SpecMenu)     *)
(* over its own variables.                                                 *)
(***************************************************************************)
EXTENDS Integers, Sequences, FiniteSets

VARIABLES
  \* ---- ZoomModal -------------------------------------------------------
  media,          \* prop: the ordered media list (a sequence of media ids)
  zoomMediaId,    \* prop/parent state: the selected media id
  open,           \* prop/parent state: the viewer is open
  mounted,        \* the ZoomModal component is mounted
  listeners,      \* keydown listeners attached to window, in attach order
  effectHandler,  \* handleKeyDown closed over by the mounted effect's cleanup
  effectDeps,     \* dependency values of the last effect run
  rafQueue,       \* pending requestAnimationFrame callbacks (id to scroll to)
  lastScroll,     \* what the last step's scrollToMedia call did, if any
  lastEvent,      \* the kind of the last step
  zoomThrew,      \* the last step's handler raised a TypeError
  \* ---- Footer: newsletter ----------------------------------------------
  fetcherState,   \* fetcher.state: "idle", "submitting" or "loading"
  fetcherData,    \* fetcher.data: the last response received, or NoData
  message,        \* useState(""): the success message
  error,          \* useState(""): the error message
  issued,         \* number of newsletter requests issued so far
  inFlight,       \* the request awaiting its response (0: none)
  prevData,       \* fetcher.data before the last response arrived
  \* ---- Footer: link menu -----------------------------------------------
  footerMenu,     \* useShopMenu().footerMenu.items
  rendered,       \* what FooterMenu rendered, or NotRendered
  \* ---- Cart ------------------------------------------------------------
  cart,           \* prop: authoritative quantity of each line (0: no line)
  fetchers,       \* cart submissions in flight, in useFetchers() order
  lastSent,       \* the submission the last step sent, if it sent one
  \* ---- CartLinePrice ---------------------------------------------------
  priceLine,      \* prop: line
  priceType,      \* prop: priceType, or "omitted"
  priceShown      \* what CartLinePrice returned, or NotShownYet

zoomVars == <<media, zoomMediaId, open, mounted, listeners, effectHandler,
              effectDeps, rafQueue, lastScroll, lastEvent, zoomThrew>>

newsletterVars == <<fetcherState, fetcherData, message, error, issued, inFlight,
                    prevData>>

menuVars == <<footerMenu, rendered>>

cartVars == <<cart, fetchers, lastSent>>

priceVars == <<priceLine, priceType, priceShown>>

vars == <<zoomVars, newsletterVars, menuVars, cartVars, priceVars>>

\* ---------------------------------------------------------------- bounds
MaxMedia == 3    \* longest media list, and size of the id pool
MaxRaf == 2      \* animation-frame callbacks that may be pending at once
RectMax == 3     \* largest coordinate of a bounding box
MaxSubmits == 4  \* newsletter submissions in one run
MaxItems == 2    \* top-level entries of the footer menu
MaxChildren == 1 \* child entries of one top-level entry
MaxQty == 2      \* largest quantity of a line the shop accepts
MaxFetchers == 2 \* cart submissions that may be in flight at once
MaxAmount == 2   \* largest amount of a money field

\* ------------------------------------------------------------- ZoomModal
\* A media id is a global id "gid://shopify/<resource>/<id>".
Gid(n) == [resource |-> IF n % 2 = 0 THEN "Video" ELSE "MediaImage", id |-> n]

GidPool == {Gid(n) : n \in 1..MaxMedia}

\* The value of an out-of-range array read and of a find() without a match.
Undefined == [resource |-> "undefined", id |-> 0]

\* The media lists given to the component: the first n ids of the pool.
MediaLists == {[i \in 1..n |-> Gid(i)] : n \in 0..MaxMedia}

\* parseGid(id).id: the trailing numeric part of the global id
parseGid(g) == g.id

\* media.findIndex((med) => med.id === zoomMediaId), 0-based, -1 if absent
findIndex(m, z) ==
  IF \E i \in 1..Len(m) : m[i] = z
  THEN (CHOOSE i \in 1..Len(m) : m[i] = z /\ \A j \in 1..(i-1) : m[j] # z) - 1
  ELSE -1

\* media[i] with a 0-based index: undefined outside the array
At(m, i) == IF i \in 0..(Len(m) - 1) THEN m[i + 1] ELSE Undefined

\* a ?? b
Coalesce(a, b) == IF a = Undefined THEN b ELSE a

\* a next-target that stops at the end of the list instead of wrapping
nextMediaNoWrap(m, z) == Coalesce(At(m, findIndex(m, z) + 1), At(m, Len(m) - 1))

\* const nextMedia = media[zoomMediaIndex + 1] ?? media[0]
nextMedia(m, z) == Coalesce(At(m, findIndex(m, z) + 1), At(m, 0))

\* const prevMedia = media[zoomMediaIndex - 1] ?? media[media.length - 1]
prevMedia(m, z) == Coalesce(At(m, findIndex(m, z) - 1), At(m, Len(m) - 1))

\* Bounding boxes. A thumbnail is one unit square; the scroll container is
\* the box from 1 to RectMax - 1 in both directions.
ParentRect == [top |-> 1, bottom |-> RectMax - 1, left |-> 1, right |-> RectMax - 1]

ChildRects == {[top |-> t, bottom |-> t + 1, left |-> l, right |-> l + 1] :
                 t \in 0..(RectMax - 1), l \in 0..(RectMax - 1)}

\* a visibility test that forgets the right edge
isVisibleIgnoringRight(child, parent) ==
  /\ child.top >= parent.top
  /\ child.bottom <= parent.bottom
  /\ child.left >= parent.left

\* isVisibleInParent(child, parent)
isVisibleInParent(child, parent) ==
  /\ child.top >= parent.top
  /\ child.bottom <= parent.bottom
  /\ child.left >= parent.left
  /\ child.right <= parent.right

NoScroll == [called |-> FALSE, target |-> Undefined, element |-> FALSE,
             child |-> ParentRect, invoked |-> FALSE]

\* document.getElementById(`zoom-media--${mediaId}`): the thumbnails exist
\* while the dialog content is rendered, one per media item.
ElementExists(id, m, o, mt) ==
  o /\ mt /\ \E i \in 1..Len(m) : parseGid(m[i]) = parseGid(id)

\* scrollToMedia(id), with `child` the thumbnail's bounding box at the call
scrollToMedia(id, child, m, o, mt) ==
  LET found == ElementExists(id, m, o, mt)
      isVisible == isVisibleInParent(child, ParentRect)
  IN [called |-> TRUE, target |-> id, element |-> found, child |-> child,
      invoked |-> found /\ ~isVisible]

NoHandler == [hid |-> -1, next |-> Undefined, prev |-> Undefined]
NoDeps == [open |-> FALSE, zoomMediaId |-> Undefined,
           nextMedia |-> Undefined, prevMedia |-> Undefined, run |-> FALSE]

\* window.removeEventListener("keydown", h): removes that very function
RemoveListener(L, h) == SelectSeq(L, LAMBDA x : x.hid # h.hid)

\* an effect cleanup that leaves the listener attached
EffectCleanupNone(L, h) == L

\* the effect's cleanup: window.removeEventListener("keydown", handleKeyDown)
EffectCleanup(L, h) == RemoveListener(L, h)

\* identity of a newly created handleKeyDown function
FreshHid(L) ==
  CHOOSE n \in 0..Len(L) : /\ \A i \in 1..Len(L) : L[i].hid # n
                           /\ \A k \in 0..(n - 1) : \E i \in 1..Len(L) : L[i].hid = k

\* an effect that depends on [open] only: the listener attached when the
\* viewer opened stays attached while the selection changes
RunEffectsOpenOnly(o, z, m, L, H, D, Q) ==
  LET deps == [open |-> o, zoomMediaId |-> Undefined, nextMedia |-> Undefined,
               prevMedia |-> Undefined, run |-> TRUE]
      L1 == EffectCleanup(L, H)
      h == [hid |-> FreshHid(L1), next |-> nextMedia(m, z), prev |-> prevMedia(m, z)]
  IN IF deps = D
     THEN [listeners |-> L, handler |-> H, deps |-> D, raf |-> Q]
     ELSE [listeners |-> IF o THEN Append(L1, h) ELSE RemoveListener(L1, h),
           handler |-> h,
           deps |-> deps,
           raf |-> IF o THEN Append(Q, z) ELSE Q]

\* One render of ZoomModal followed by its effect: the cleanup of the
\* previous effect and the new effect run, when a dependency has changed.
RunEffects(o, z, m, L, H, D, Q) ==
  LET deps == [open |-> o, zoomMediaId |-> z, nextMedia |-> nextMedia(m, z),
               prevMedia |-> prevMedia(m, z), run |-> TRUE]
      L1 == EffectCleanup(L, H)
      h == [hid |-> FreshHid(L1), next |-> nextMedia(m, z), prev |-> prevMedia(m, z)]
  IN IF deps = D
     THEN [listeners |-> L, handler |-> H, deps |-> D, raf |-> Q]
     ELSE [listeners |-> IF o THEN Append(L1, h) ELSE RemoveListener(L1, h),
           handler |-> h,
           deps |-> deps,
           raf |-> IF o THEN Append(Q, z) ELSE Q]

Commit(o, z) ==
  LET r == RunEffects(o, z, media, listeners, effectHandler, effectDeps, rafQueue)
  IN /\ listeners' = r.listeners
     /\ effectHandler' = r.handler
     /\ effectDeps' = r.deps
     /\ rafQueue' = r.raf

InitZoom ==
  /\ media \in MediaLists
  /\ zoomMediaId \in GidPool
  /\ open = FALSE
  /\ mounted = TRUE
  /\ LET r == RunEffects(FALSE, zoomMediaId, media, <<>>, NoHandler, NoDeps, <<>>)
     IN /\ listeners = r.listeners
        /\ effectHandler = r.handler
        /\ effectDeps = r.deps
        /\ rafQueue = r.raf
  /\ lastScroll = NoScroll
  /\ lastEvent = "init"
  /\ zoomThrew = FALSE

\* The parent opens the viewer, on the media item the user picked.
Open ==
  /\ mounted /\ ~open /\ Len(rafQueue) < MaxRaf
  /\ \E z \in {zoomMediaId} \cup {media[i] : i \in 1..Len(media)} :
       /\ zoomMediaId' = z
       /\ open' = TRUE
       /\ Commit(TRUE, z)
  /\ lastScroll' = NoScroll
  /\ lastEvent' = "open"
  /\ zoomThrew' = FALSE
  /\ UNCHANGED <<media, mounted>>

\* onOpenChange(false): the close button, Escape or an outside click
Close ==
  /\ mounted /\ open
  /\ open' = FALSE
  /\ Commit(FALSE, zoomMediaId)
  /\ lastScroll' = NoScroll
  /\ lastEvent' = "close"
  /\ zoomThrew' = FALSE
  /\ UNCHANGED <<media, zoomMediaId, mounted>>

\* A navigation handler: setZoomMediaId(target.id); scrollToMedia(target.id)
Navigate(target, kind) ==
  IF target = Undefined
  THEN /\ zoomThrew' = TRUE
       /\ lastScroll' = NoScroll
       /\ lastEvent' = kind
       /\ UNCHANGED <<media, zoomMediaId, open, mounted, listeners,
                      effectHandler, effectDeps, rafQueue>>
  ELSE /\ \E child \in ChildRects :
            lastScroll' = scrollToMedia(target, child, media, open, mounted)
       /\ zoomMediaId' = target
       /\ Commit(open, target)
       /\ zoomThrew' = FALSE
       /\ lastEvent' = kind
       /\ UNCHANGED <<media, open, mounted>>

ArrowKeys == {"ArrowRight", "ArrowDown", "ArrowLeft", "ArrowUp"}
Keys == ArrowKeys \cup {"Enter"}

\* A keydown event on window, delivered to the attached handleKeyDown.
KeyDown ==
  /\ listeners # <<>> /\ Len(rafQueue) < MaxRaf
  /\ \E key \in Keys :
       LET h == listeners[Len(listeners)]
       IN IF key \in {"ArrowRight", "ArrowDown"} THEN Navigate(h.next, "key")
          ELSE IF key \in {"ArrowLeft", "ArrowUp"} THEN Navigate(h.prev, "key")
          ELSE /\ lastEvent' = "otherkey"
               /\ lastScroll' = NoScroll
               /\ zoomThrew' = FALSE
               /\ UNCHANGED <<media, zoomMediaId, open, mounted, listeners,
                              effectHandler, effectDeps, rafQueue>>

\* the left-arrow button
ClickPrev ==
  /\ mounted /\ open /\ Len(rafQueue) < MaxRaf
  /\ Navigate(prevMedia(media, zoomMediaId), "prev")

\* the right-arrow button
ClickNext ==
  /\ mounted /\ open /\ Len(rafQueue) < MaxRaf
  /\ Navigate(nextMedia(media, zoomMediaId), "next")

\* a thumbnail of the rail: onClick={() => setZoomMediaId(id)}
ClickThumbnail ==
  /\ mounted /\ open /\ Len(rafQueue) < MaxRaf
  /\ \E i \in 1..Len(media) :
       /\ zoomMediaId' = media[i]
       /\ Commit(open, media[i])
  /\ lastScroll' = NoScroll
  /\ lastEvent' = "thumb"
  /\ zoomThrew' = FALSE
  /\ UNCHANGED <<media, open, mounted>>

\* The next animation frame runs the oldest pending callback,
\* () => scrollToMedia(zoomMediaId), queued by the effect.
AnimationFrame ==
  /\ rafQueue # <<>>
  /\ \E child \in ChildRects :
       lastScroll' = scrollToMedia(Head(rafQueue), child, media, open, mounted)
  /\ rafQueue' = Tail(rafQueue)
  /\ lastEvent' = "frame"
  /\ zoomThrew' = FALSE
  /\ UNCHANGED <<media, zoomMediaId, open, mounted, listeners, effectHandler,
                 effectDeps>>

\* The component is removed from the page: the effect's cleanup runs.
Unmount ==
  /\ mounted
  /\ mounted' = FALSE
  /\ listeners' = EffectCleanup(listeners, effectHandler)
  /\ effectHandler' = NoHandler
  /\ effectDeps' = NoDeps
  /\ lastScroll' = NoScroll
  /\ lastEvent' = "unmount"
  /\ zoomThrew' = FALSE
  /\ UNCHANGED <<media, zoomMediaId, open, rafQueue>>

\* The component is mounted again, with the parent's current state.
Mount ==
  /\ ~mounted /\ Len(rafQueue) < MaxRaf
  /\ mounted' = TRUE
  /\ Commit(open, zoomMediaId)
  /\ lastScroll' = NoScroll
  /\ lastEvent' = "mount"
  /\ zoomThrew' = FALSE
  /\ UNCHANGED <<media, zoomMediaId, open>>

\* ---------------------------------------------------- Footer newsletter
NoData == [ok |-> FALSE, error |-> "<none>", req |-> 0]

\* a response field that is absent
NoErrorField == "<undefined>"

\* the success text, without the emoji that ends it in the source
ThanksMessage == "Thank you for signing up!"
GenericError == "An error occurred while signing up."

\* The { ok, error } results the newsletter endpoint may return.
Responses ==
  {[ok |-> o, error |-> e] :
     o \in BOOLEAN, e \in {NoErrorField, "", "Invalid email", "Already subscribed"}}

\* an error text without the generic fallback
ResponseErrorNoFallback(resp) == resp.error

\* newsLetterResponse.error || "An error occurred while signing up."
ResponseError(resp) ==
  IF resp.error \in {NoErrorField, ""} THEN GenericError ELSE resp.error

InitNewsletter ==
  /\ fetcherState = "idle"
  /\ fetcherData = NoData
  /\ message = ""
  /\ error = ""
  /\ issued = 0
  /\ inFlight = 0
  /\ prevData = NoData

\* an onSubmit that leaves the messages of the previous submission in place
SubmitKeepsMessages ==
  /\ issued < MaxSubmits
  /\ issued' = issued + 1
  /\ inFlight' = issued + 1
  /\ fetcherState' = "submitting"
  /\ UNCHANGED <<fetcherData, message, error, prevData>>

\* The form's onSubmit: setMessage(""); setError(""); fetcher.submit(form).
\* fetcher.submit on a fetcher whose request is pending aborts that request
\* and issues the new one; fetcher.data keeps the last response meanwhile.
Submit ==
  /\ issued < MaxSubmits
  /\ message' = ""
  /\ error' = ""
  /\ issued' = issued + 1
  /\ inFlight' = issued + 1
  /\ fetcherState' = "submitting"
  /\ UNCHANGED <<fetcherData, prevData>>

\* The response of the pending request arrives: fetcher.data changes and the
\* effect on [newsLetterResponse] runs.
Respond ==
  /\ inFlight # 0
  /\ \E resp \in Responses :
       /\ fetcherData' = [ok |-> resp.ok, error |-> resp.error, req |-> inFlight]
       /\ IF ~resp.ok
          THEN /\ error' = ResponseError(resp)
               /\ UNCHANGED message
          ELSE /\ message' = ThanksMessage
               /\ UNCHANGED error
  /\ inFlight' = 0
  /\ fetcherState' = "loading"
  /\ prevData' = fetcherData
  /\ UNCHANGED issued

\* The page data has been reloaded after the submission: the fetcher is idle.
Revalidated ==
  /\ fetcherState = "loading"
  /\ fetcherState' = "idle"
  /\ UNCHANGED <<fetcherData, message, error, issued, inFlight, prevData>>

\* ------------------------------------------------------------ FooterMenu
\* The `to` of a menu item: the two special tokens and an ordinary path.
Tos == {"#", "/", "/pages/about"}

ChildItems == [to : Tos]

ChildLists == UNION {[1..n -> ChildItems] : n \in 0..MaxChildren}

MenuItems == [to : Tos, items : ChildLists]

Menus == UNION {[1..n -> MenuItems] : n \in 1..MaxItems}

NotRendered == <<[trigger |-> "none", heading |-> "none", children |-> <<>>]>>

\* a top-level label that is always a link
TopLevelAlwaysLink(to) == "Link"

\* ["#", "/"].includes(to) ? <span>{title}</span> : <Link to={to}>{title}</Link>
TopLevelLabel(to) == IF to \in {"#", "/"} THEN "text" ELSE "Link"

\* {items.map(({ id, to, title }) => <Link to={to} ...>)}
ChildLabel(to) == "Link"

\* FooterMenu: per top-level item the accordion trigger's label, the
\* heading's label and the child entries.
FooterMenu(items) ==
  [i \in 1..Len(items) |->
     [trigger |-> TopLevelLabel(items[i].to),
      heading |-> TopLevelLabel(items[i].to),
      children |-> [k \in 1..Len(items[i].items) |-> ChildLabel(items[i].items[k].to)]]]

InitMenu ==
  /\ footerMenu \in Menus
  /\ rendered = NotRendered

RenderFooterMenu ==
  /\ rendered = NotRendered
  /\ rendered' = FooterMenu(footerMenu)
  /\ UNCHANGED footerMenu

\* ------------------------------------------------------------------ Cart
\* The cart under study has room for two lines, one per product variant. The
\* line of a variant that is only being added has an optimistic ("pending")
\* id until the server has created it.
Lines == {"line-A", "line-B"}

LineIds == [line : Lines, pending : BOOLEAN]

\* cart.totalQuantity: the quantities of the cart's lines added up
RECURSIVE SumOver(_, _)
SumOver(c, S) ==
  IF S = {} THEN 0
  ELSE LET l == CHOOSE x \in S : TRUE IN c[l] + SumOver(c, S \ {l})

Sum(c) == SumOver(c, Lines)

\* useOptimisticCart, one pending submission applied to the cart's lines:
\*   LinesAdd     a line of that variant gets the quantity added and
\*                isOptimistic; without one, a new line with a pending id;
\*   LinesRemove  the line with that id is taken out of the list;
\*   LinesUpdate  the line with that id gets the target quantity, and is
\*                taken out of the list when that is 0;
\*   a line with a pending id is neither updated nor removed.
ApplyFetcher(oc, f) ==
  LET ln == oc[f.line]
  IN CASE f.action = "LinesAdd" ->
            IF ln.present
            THEN [oc EXCEPT ![f.line] = [ln EXCEPT !.quantity = ln.quantity + f.quantity,
                                                   !.isOptimistic = TRUE]]
            ELSE [oc EXCEPT ![f.line] = [present |-> TRUE, quantity |-> f.quantity,
                                         isOptimistic |-> TRUE, pending |-> TRUE]]
       [] f.action = "LinesRemove" ->
            IF ln.present /\ ln.pending = f.pending /\ ~f.pending
            THEN [oc EXCEPT ![f.line] = [ln EXCEPT !.present = FALSE]]
            ELSE oc
       [] OTHER ->
            IF ln.present /\ ln.pending = f.pending /\ ~f.pending
            THEN [oc EXCEPT ![f.line] = [ln EXCEPT !.quantity = f.quantity,
                                                   !.present = (f.quantity # 0)]]
            ELSE oc

RECURSIVE ApplyAll(_, _)
ApplyAll(oc, F) == IF F = <<>> THEN oc ELSE ApplyAll(ApplyFetcher(oc, Head(F)), Tail(F))

\* const optimisticCart = useOptimisticCart(cart), as its lines
useOptimisticCart(c, F) ==
  ApplyAll([l \in Lines |-> [present |-> c[l] > 0, quantity |-> c[l],
                             isOptimistic |-> FALSE, pending |-> FALSE]], F)

\* a cart that counts as filled when the optimistic lines are
cartHasItemsOptimistic(c, F) == \E l \in Lines : useOptimisticCart(c, F)[l].present

\* const cartHasItems = !!cart && cart.totalQuantity > 0
cartHasItems(c, F) == Sum(c) > 0

\* const linesCount = Boolean(optimisticCart?.lines?.nodes?.length || 0)
linesCount(c, F) == Cardinality({l \in Lines : useOptimisticCart(c, F)[l].present}) # 0

\* Cart: which layout is rendered
DetailsRendered(c, F) == cartHasItems(c, F)

\* CartEmpty is rendered with hidden={linesCount} in the other branch
EmptyVisible(c, F) == ~cartHasItems(c, F) /\ ~linesCount(c, F)

\* CartLines renders one CartLineItem per line of the optimistic cart
LineMounted(l, c, F) == DetailsRendered(c, F) /\ useOptimisticCart(c, F)[l].present

\* line.id of the rendered line
LineId(l, c, F) == [line |-> l, pending |-> useOptimisticCart(c, F)[l].pending]

NoPatch == [hasQuantity |-> FALSE, quantity |-> 0, action |-> "none"]

\* useOptimisticData(id): the optimistic-data of every pending submission
\* whose optimistic-identifier is id, merged in order (Object.assign)
RECURSIVE MergeData(_, _, _)
MergeData(d, id, F) ==
  IF F = <<>> THEN d
  ELSE LET f == Head(F)
           d1 == IF f.action # "LinesAdd" /\ [line |-> f.line, pending |-> f.pending] = id
                 THEN IF f.action = "LinesRemove"
                      THEN [d EXCEPT !.action = "remove"]
                      ELSE [d EXCEPT !.hasQuantity = TRUE, !.quantity = f.quantity]
                 ELSE d
       IN MergeData(d1, id, Tail(F))

useOptimisticData(id, F) == MergeData(NoPatch, id, F)

\* display: optimisticData?.action === "remove" ? "none" : "flex"
LineHidden(l, c, F) == useOptimisticData(LineId(l, c, F), F).action = "remove"

\* a displayed quantity that ignores the optimistic patch
optimisticQuantityNoPatch(l, c, F) == useOptimisticCart(c, F)[l].quantity

\* const optimisticQuantity = optimisticData?.quantity || line.quantity
optimisticQuantity(l, c, F) ==
  LET od == useOptimisticData(LineId(l, c, F), F)
  IN IF od.hasQuantity /\ od.quantity # 0
     THEN od.quantity
     ELSE useOptimisticCart(c, F)[l].quantity

\* Number(Math.max(0, optimisticQuantity - 1).toFixed(0)), on an integer
prevQuantity(l, c, F) ==
  IF optimisticQuantity(l, c, F) - 1 > 0 THEN optimisticQuantity(l, c, F) - 1 ELSE 0

\* Number((optimisticQuantity + 1).toFixed(0)), on an integer
nextQuantity(l, c, F) == optimisticQuantity(l, c, F) + 1

\* a decrement control that stays enabled at quantity 1
decreaseDisabledBelowOne(l, c, F) ==
  optimisticQuantity(l, c, F) < 1 \/ useOptimisticCart(c, F)[l].isOptimistic

\* a decrement control that is disabled for an optimistic line only
decreaseDisabledOnlyOptimistic(l, c, F) == useOptimisticCart(c, F)[l].isOptimistic

\* disabled={optimisticQuantity <= 1 || isOptimistic}
decreaseDisabled(l, c, F) ==
  optimisticQuantity(l, c, F) <= 1 \/ useOptimisticCart(c, F)[l].isOptimistic

\* disabled={isOptimistic}
increaseDisabled(l, c, F) == useOptimisticCart(c, F)[l].isOptimistic

\* A form's fetcher lives with the form's component: once the line item
\* has left the rendered list, a pending submission of one of its forms is
\* no longer the fetcher of any mounted form.
MarkOrphans(F, c) ==
  [i \in 1..Len(F) |->
     IF F[i].form # "add" /\ ~( /\ LineMounted(F[i].line, c, F)
                               /\ LineId(F[i].line, c, F).pending = F[i].pending )
     THEN [F[i] EXCEPT !.orphan = TRUE]
     ELSE F[i]]

\* CartForm submission: the form's own fetcher is reused (its pending
\* request is superseded), any other form gets a fetcher of its own.
SubmitForm(F, f) ==
  IF \E i \in 1..Len(F) : /\ F[i].form = f.form /\ F[i].line = f.line
                          /\ F[i].pending = f.pending /\ ~F[i].orphan
  THEN [i \in 1..Len(F) |->
          IF /\ F[i].form = f.form /\ F[i].line = f.line
             /\ F[i].pending = f.pending /\ ~F[i].orphan
          THEN f ELSE F[i]]
  ELSE Append(F, f)

CanSubmit(F, f) ==
  \/ Len(F) < MaxFetchers
  \/ \E i \in 1..Len(F) : /\ F[i].form = f.form /\ F[i].line = f.line
                          /\ F[i].pending = f.pending /\ ~F[i].orphan

Submission(a, form, id, q) ==
  [action |-> a, form |-> form, line |-> id.line, pending |-> id.pending,
   quantity |-> q, orphan |-> FALSE]

\* no submission
NoSubmission ==
  [action |-> "none", form |-> "none", line |-> "none", pending |-> FALSE,
   quantity |-> 0, orphan |-> FALSE]

InitCart ==
  /\ cart \in [Lines -> 0..MaxQty]
  /\ fetchers = <<>>
  /\ lastSent = NoSubmission

IdleCart ==
  /\ cart = [l \in Lines |-> 0]
  /\ fetchers = <<>>
  /\ lastSent = NoSubmission

\* The line's controls can be used: the line item is rendered and shown.
LineUsable(l) == LineMounted(l, cart, fetchers) /\ ~LineHidden(l, cart, fetchers)

Send(f) ==
  /\ CanSubmit(fetchers, f)
  /\ fetchers' = MarkOrphans(SubmitForm(fetchers, f), cart)
  /\ lastSent' = f
  /\ UNCHANGED cart

\* the "-" button: UpdateCartButton lines={[{ id, quantity: prevQuantity }]}
\* with OptimisticInput data={{ quantity: prevQuantity }}
ClickDecrease ==
  \E l \in Lines :
    /\ LineUsable(l)
    /\ ~decreaseDisabled(l, cart, fetchers)
    /\ Send(Submission("LinesUpdate", "dec", LineId(l, cart, fetchers),
                       prevQuantity(l, cart, fetchers)))

\* the "+" button: UpdateCartButton lines={[{ id, quantity: nextQuantity }]}
\* with OptimisticInput data={{ quantity: nextQuantity }}
ClickIncrease ==
  \E l \in Lines :
    /\ LineUsable(l)
    /\ ~increaseDisabled(l, cart, fetchers)
    /\ nextQuantity(l, cart, fetchers) <= MaxQty
    /\ Send(Submission("LinesUpdate", "inc", LineId(l, cart, fetchers),
                       nextQuantity(l, cart, fetchers)))

\* ItemRemoveButton: LinesRemove with OptimisticInput data={{ action: "remove" }}
ClickRemove ==
  \E l \in Lines :
    /\ LineUsable(l)
    /\ Send(Submission("LinesRemove", "rm", LineId(l, cart, fetchers), 0))

\* An add-to-cart form elsewhere on the page submits LinesAdd for a variant.
AddToCart ==
  \E l \in Lines :
    /\ \A i \in 1..Len(fetchers) : ~(fetchers[i].form = "add" /\ fetchers[i].line = l)
    /\ useOptimisticCart(cart, fetchers)[l].quantity < MaxQty
    /\ Send(Submission("LinesAdd", "add", [line |-> l, pending |-> FALSE], 1))

\* What the server makes of a submission it accepts.
ServerApply(c, f) ==
  CASE f.action = "LinesAdd" ->
         [c EXCEPT ![f.line] = IF c[f.line] + f.quantity > MaxQty THEN MaxQty
                               ELSE c[f.line] + f.quantity]
    [] f.action = "LinesRemove" ->
         IF f.pending THEN c ELSE [c EXCEPT ![f.line] = 0]
    [] OTHER ->
         IF f.pending \/ c[f.line] = 0 THEN c ELSE [c EXCEPT ![f.line] = f.quantity]

\* A pending submission settles: the server has applied or rejected it, the
\* cart has been reloaded and the submission's fetcher is idle again.
Settle ==
  \E i \in 1..Len(fetchers), accepted \in BOOLEAN :
    LET rest == SubSeq(fetchers, 1, i - 1) \o SubSeq(fetchers, i + 1, Len(fetchers))
        c == IF accepted THEN ServerApply(cart, fetchers[i]) ELSE cart
    IN /\ cart' = c
       /\ fetchers' = MarkOrphans(rest, c)
       /\ lastSent' = NoSubmission

\* --------------------------------------------------------- CartLinePrice
\* A money field of line.cost: absent (null or undefined), or a MoneyV2
\* object, told apart by its amount.
NoMoney == [present |-> FALSE, amount |-> 0]

MoneyFields == {NoMoney} \cup {[present |-> TRUE, amount |-> a] : a \in 1..MaxAmount}

\* The line prop: no line, a line without cost, or a line whose cost has
\* the three money fields.
NoLine ==
  [present |-> FALSE, hasCost |-> FALSE, amountPerQuantity |-> NoMoney,
   totalAmount |-> NoMoney, compareAtAmountPerQuantity |-> NoMoney]

NoCostLine == [NoLine EXCEPT !.present = TRUE]

PriceLines ==
  {NoLine, NoCostLine} \cup
  [present : {TRUE}, hasCost : {TRUE}, amountPerQuantity : MoneyFields,
   totalAmount : MoneyFields, compareAtAmountPerQuantity : MoneyFields]

PriceTypes == {"omitted", "regular", "compareAt"}

NotShownYet == [returned |-> FALSE, money |-> FALSE, data |-> NoMoney]

\* return null
RendersNothing == [returned |-> TRUE, money |-> FALSE, data |-> NoMoney]

\* <Money data={moneyV2} />
Money(moneyV2) == [returned |-> TRUE, money |-> TRUE, data |-> moneyV2]

\* a price that shows the total amount whatever the flag
CartLinePriceIgnoresFlag(ln, pt) ==
  IF \/ ~ln.present \/ ~ln.hasCost
     \/ ~ln.amountPerQuantity.present \/ ~ln.totalAmount.present
  THEN RendersNothing
  ELSE Money(ln.totalAmount)

\* CartLinePrice({ line, priceType = "regular" })
CartLinePrice(ln, pt) ==
  LET type == IF pt = "omitted" THEN "regular" ELSE pt
  IN IF \/ ~ln.present \/ ~ln.hasCost
        \/ ~ln.amountPerQuantity.present \/ ~ln.totalAmount.present
     THEN RendersNothing
     ELSE LET moneyV2 == IF type = "regular" THEN ln.totalAmount
                         ELSE ln.compareAtAmountPerQuantity
          IN IF ~moneyV2.present THEN RendersNothing ELSE Money(moneyV2)

InitPrice ==
  /\ priceLine \in PriceLines
  /\ priceType \in PriceTypes
  /\ priceShown = NotShownYet

RenderPrice ==
  /\ priceShown = NotShownYet
  /\ priceShown' = CartLinePrice(priceLine, priceType)
  /\ UNCHANGED <<priceLine, priceType>>

\* The components not under study stay in one fixed state.
IdlePrice ==
  /\ priceLine = NoLine
  /\ priceType = "omitted"
  /\ priceShown = NotShownYet

IdleZoom ==
  /\ media = <<>>
  /\ zoomMediaId = Gid(1)
  /\ open = FALSE
  /\ mounted = FALSE
  /\ listeners = <<>>
  /\ effectHandler = NoHandler
  /\ effectDeps = NoDeps
  /\ rafQueue = <<>>
  /\ lastScroll = NoScroll
  /\ lastEvent = "init"
  /\ zoomThrew = FALSE

IdleMenu ==
  /\ footerMenu = <<>>
  /\ rendered = NotRendered

\* -------------------------------------------------------- specifications
NextZoom ==
  \/ Open /\ UNCHANGED <<newsletterVars, menuVars, cartVars, priceVars>>
  \/ Close /\ UNCHANGED <<newsletterVars, menuVars, cartVars, priceVars>>
  \/ KeyDown /\ UNCHANGED <<newsletterVars, menuVars, cartVars, priceVars>>
  \/ ClickPrev /\ UNCHANGED <<newsletterVars, menuVars, cartVars, priceVars>>
  \/ ClickNext /\ UNCHANGED <<newsletterVars, menuVars, cartVars, priceVars>>
  \/ ClickThumbnail /\ UNCHANGED <<newsletterVars, menuVars, cartVars, priceVars>>
  \/ AnimationFrame /\ UNCHANGED <<newsletterVars, menuVars, cartVars, priceVars>>
  \/ Unmount /\ UNCHANGED <<newsletterVars, menuVars, cartVars, priceVars>>
  \/ Mount /\ UNCHANGED <<newsletterVars, menuVars, cartVars, priceVars>>

InitSpecZoom == IdleCart /\ IdlePrice /\ InitZoom /\ InitNewsletter /\ IdleMenu

SpecZoom == InitSpecZoom /\ [][NextZoom]_vars

NextNewsletter ==
  \/ Submit /\ UNCHANGED <<zoomVars, menuVars, cartVars, priceVars>>
  \/ Respond /\ UNCHANGED <<zoomVars, menuVars, cartVars, priceVars>>
  \/ Revalidated /\ UNCHANGED <<zoomVars, menuVars, cartVars, priceVars>>

InitSpecFooter == IdleCart /\ IdlePrice /\ IdleZoom /\ InitNewsletter /\ IdleMenu

SpecFooter == InitSpecFooter /\ [][NextNewsletter]_vars

NextCart ==
  \/ ClickDecrease /\ UNCHANGED <<zoomVars, newsletterVars, menuVars, priceVars>>
  \/ ClickIncrease /\ UNCHANGED <<zoomVars, newsletterVars, menuVars, priceVars>>
  \/ ClickRemove /\ UNCHANGED <<zoomVars, newsletterVars, menuVars, priceVars>>
  \/ AddToCart /\ UNCHANGED <<zoomVars, newsletterVars, menuVars, priceVars>>
  \/ Settle /\ UNCHANGED <<zoomVars, newsletterVars, menuVars, priceVars>>

InitSpecCart == IdleZoom /\ InitNewsletter /\ IdleMenu /\ IdlePrice /\ InitCart

SpecCart == InitSpecCart /\ [][NextCart]_vars

NextPrice ==
  \/ RenderPrice /\ UNCHANGED <<zoomVars, newsletterVars, menuVars, cartVars>>

InitSpecPrice == IdleCart /\ IdleZoom /\ InitNewsletter /\ IdleMenu /\ InitPrice

SpecPrice == InitSpecPrice /\ [][NextPrice]_vars

NextMenu ==
  \/ RenderFooterMenu /\ UNCHANGED <<zoomVars, newsletterVars, cartVars, priceVars>>

InitSpecMenu == IdleCart /\ IdlePrice /\ IdleZoom /\ InitNewsletter /\ InitMenu

SpecMenu == InitSpecMenu /\ [][NextMenu]_vars

\* ------------------------------------------------------ ZoomModal claims
\* C1: for a media list of length N >= 1 whose item at index i is selected,
\* the next target is the item at index (i+1) mod N and the prev target the
\* item at index (i-1+N) mod N, in every state navigation can reach; the
\* attached key listener uses the same two targets.
C1_NextPrevWrap ==
  \A i \in 0..(Len(media) - 1) :
    (mounted /\ media[i + 1] = zoomMediaId) =>
      LET N == Len(media)
          n == media[((i + 1) % N) + 1]
          p == media[((i - 1 + N) % N) + 1]
      IN /\ nextMedia(media, zoomMediaId) = n
         /\ prevMedia(media, zoomMediaId) = p
         /\ \A k \in 1..Len(listeners) :
              listeners[k].next = n /\ listeners[k].prev = p

\* C1 witness: navigation has landed on the last item of a full list, where
\* next wraps to the first item.
C1_Witness ==
  /\ Len(media) = MaxMedia
  /\ zoomMediaId = media[Len(media)]
  /\ lastEvent \in {"key", "prev", "next"}
  /\ open
  /\ Len(listeners) = 1
  /\ listeners[1].next = media[1]

\* C2: a keydown listener is attached only while the viewer is open and
\* mounted, and never more than one.
C2_SingleListenerOnlyWhileOpen ==
  /\ Len(listeners) <= 1
  /\ listeners # <<>> => (open /\ mounted)

\* C2 witness: the viewer was opened and closed again (a frame
\* callback of the open viewer is still pending) and no listener is left.
C2_Witness ==
  /\ mounted /\ ~open
  /\ lastEvent = "close"
  /\ rafQueue # <<>>
  /\ listeners = <<>>

\* "some edge of the child lies outside the parent"
EdgeOutside(c, p) ==
  \/ c.top < p.top
  \/ c.bottom > p.bottom
  \/ c.left < p.left
  \/ c.right > p.right

C11_AbsentIdFallsBack ==
  /\ (mounted /\ findIndex(media, zoomMediaId) = -1) =>
       /\ nextMedia(media, zoomMediaId) = At(media, 0)
       /\ prevMedia(media, zoomMediaId) = At(media, Len(media) - 1)
  /\ lastEvent \in {"key", "prev", "next"} =>
       /\ ~zoomThrew
       /\ \E i \in 1..Len(media) : media[i] = zoomMediaId

\* C15: the targets of every attached key listener are the next and prev
\* targets of the current selection, and an arrow key that selects an item
\* selects the next or the prev item of the selection at the key event.
C15_ListenerTargetsCurrent ==
  /\ [](\A k \in 1..Len(listeners) :
          /\ listeners[k].next = nextMedia(media, zoomMediaId)
          /\ listeners[k].prev = prevMedia(media, zoomMediaId))
  /\ [][(lastEvent' = "key" /\ ~zoomThrew') =>
          zoomMediaId' \in {nextMedia(media, zoomMediaId),
                            prevMedia(media, zoomMediaId)}]_vars

\* C15 witness: an arrow key has moved the selection of a full list; the
\* listener was attached for the earlier selection, whose frame callback is
\* still pending, and has been attached anew for the selection the key made.
C15_Witness ==
  /\ lastEvent = "key" /\ ~zoomThrew
  /\ Len(media) = MaxMedia
  /\ Len(rafQueue) = 2
  /\ rafQueue[1] # rafQueue[2]
  /\ rafQueue[2] = zoomMediaId
  /\ Len(listeners) = 1
  /\ listeners[1].next = nextMedia(media, zoomMediaId)
  /\ listeners[1].next # rafQueue[2]

\* ----------------------------------------------------------- Cart claims
\* some mutation concerning line l is in flight
MutationPending(l) == \E i \in 1..Len(fetchers) : fetchers[i].line = l

\* an add-to-cart of line l's merchandise is in flight
AddPending(l) ==
  \E i \in 1..Len(fetchers) : fetchers[i].action = "LinesAdd" /\ fetchers[i].line = l

\* C3 (as claimed): on every rendered line the decrement control is disabled
\* iff the displayed quantity is <= 1 or a mutation for the line is pending,
\* and the increment control is disabled iff a mutation for it is pending.
C3_DisabledIffMutationPending ==
  \A l \in Lines :
    LineMounted(l, cart, fetchers) =>
      /\ decreaseDisabled(l, cart, fetchers) <=>
           (optimisticQuantity(l, cart, fetchers) <= 1 \/ MutationPending(l))
      /\ increaseDisabled(l, cart, fetchers) <=> MutationPending(l)

\* C3 (amended): on every rendered line the decrement control is disabled
\* iff the displayed quantity is <= 1 or the line is flagged isOptimistic,
\* which is the case exactly while an add-to-cart of its merchandise is in
\* flight; the increment control is disabled iff the line is so flagged.
C3_DisabledIffOptimisticAdd ==
  \A l \in Lines :
    LineMounted(l, cart, fetchers) =>
      /\ useOptimisticCart(cart, fetchers)[l].isOptimistic <=> AddPending(l)
      /\ decreaseDisabled(l, cart, fetchers) <=>
           (optimisticQuantity(l, cart, fetchers) <= 1 \/ AddPending(l))
      /\ increaseDisabled(l, cart, fetchers) <=> AddPending(l)

\* C3 witness: one rendered line has a pending quantity update and both
\* controls enabled, another has a pending add and both controls disabled.
C3_Witness ==
  \E l, k \in Lines :
    /\ LineMounted(l, cart, fetchers) /\ LineMounted(k, cart, fetchers)
    /\ \E i \in 1..Len(fetchers) :
         fetchers[i].action = "LinesUpdate" /\ fetchers[i].line = l
    /\ ~AddPending(l)
    /\ optimisticQuantity(l, cart, fetchers) >= 2
    /\ ~decreaseDisabled(l, cart, fetchers) /\ ~increaseDisabled(l, cart, fetchers)
    /\ AddPending(k)
    /\ optimisticQuantity(k, cart, fetchers) >= 2
    /\ decreaseDisabled(k, cart, fetchers) /\ increaseDisabled(k, cart, fetchers)

\* C4 (as claimed): while the removal of a line the cart still holds is in
\* flight, the line item (and so its removal form) is mounted and hidden.
C4_RemovedLineStaysMounted ==
  \A i \in 1..Len(fetchers) :
    (fetchers[i].action = "LinesRemove" /\ ~fetchers[i].pending
       /\ cart[fetchers[i].line] > 0) =>
      /\ LineMounted(fetchers[i].line, cart, fetchers)
      /\ LineHidden(fetchers[i].line, cart, fetchers)

\* C5: the details layout is rendered iff the authoritative total quantity
\* is > 0, whatever the optimistic state; with an authoritative total of 0
\* the empty state is visible iff the optimistic cart has no line.
C5_DetailsIffAuthoritativeTotal ==
  LET optimisticCount ==
        Cardinality({l \in Lines : useOptimisticCart(cart, fetchers)[l].present})
  IN /\ DetailsRendered(cart, fetchers) <=> Sum(cart) > 0
     /\ Sum(cart) = 0 => (EmptyVisible(cart, fetchers) <=> optimisticCount = 0)
     /\ Sum(cart) > 0 => ~EmptyVisible(cart, fetchers)

\* C5 witness: authoritative total 0 with one optimistic line of a pending
\* add: neither the empty state nor the details layout is shown.
C5_Witness ==
  /\ Sum(cart) = 0
  /\ Cardinality({l \in Lines : useOptimisticCart(cart, fetchers)[l].present}) = 1
  /\ Len(fetchers) = 1
  /\ ~EmptyVisible(cart, fetchers)
  /\ ~DetailsRendered(cart, fetchers)

\* the line with this id is rendered and displayed
LineShown(id) ==
  /\ LineMounted(id.line, cart, fetchers)
  /\ LineId(id.line, cart, fetchers) = id
  /\ ~LineHidden(id.line, cart, fetchers)

\* a submission carrying an optimistic patch for this id is in flight
HasPatch(id, F) ==
  \E i \in 1..Len(F) : /\ F[i].action # "LinesAdd"
                       /\ F[i].line = id.line /\ F[i].pending = id.pending

\* C9: a line has an optimistic patch exactly while a submission carrying
\* one for its id is in flight. While the patch exists the line displays the
\* patch's quantity, and is not displayed when the patch says "remove"; no
\* step other than a settlement ends a patch; and a line of the cart that no
\* pending submission concerns displays its authoritative quantity.
C9_PatchSupersedesUntilSettled ==
  /\ [](\A id \in LineIds :
          LET od == useOptimisticData(id, fetchers)
          IN /\ (od # NoPatch) <=> HasPatch(id, fetchers)
             /\ (LineShown(id) /\ od.hasQuantity) =>
                  optimisticQuantity(id.line, cart, fetchers) = od.quantity
             /\ od.action = "remove" => ~LineShown(id)
             /\ (~id.pending /\ cart[id.line] > 0 /\ ~MutationPending(id.line)) =>
                  /\ LineShown(id)
                  /\ optimisticQuantity(id.line, cart, fetchers) = cart[id.line])
  /\ [][\A id \in LineIds :
          (HasPatch(id, fetchers) /\ ~HasPatch(id, fetchers')) =>
             Len(fetchers') < Len(fetchers)]_vars

\* C9 witness: a displayed line whose pending update shows a quantity that
\* differs from the authoritative one.
C9_Witness ==
  \E id \in LineIds :
    /\ LineShown(id)
    /\ useOptimisticData(id, fetchers).hasQuantity
    /\ useOptimisticData(id, fetchers).quantity # cart[id.line]
    /\ optimisticQuantity(id.line, cart, fetchers) = useOptimisticData(id, fetchers).quantity

\* C12 (as claimed): when the user acts on a line, the patch of that action
\* is the line's optimistic patch from then on, replacing the patch of any
\* earlier action on the line that has not settled (last write wins).
C12_LastWriteWins ==
  lastSent.action \in {"LinesUpdate", "LinesRemove"} =>
    LET od == useOptimisticData([line |-> lastSent.line, pending |-> lastSent.pending],
                                fetchers)
    IN IF lastSent.action = "LinesRemove"
       THEN od.action = "remove"
       ELSE od.hasQuantity /\ od.quantity = lastSent.quantity

\* C13: on every rendered line the displayed quantity is a natural number,
\* prev is max(0, q - 1) and next is q + 1 for the displayed quantity q;
\* every target quantity of a line update in flight is a natural number; a
\* click on - emits q - 1 and a click on + emits q + 1 for the quantity q
\* displayed at the click; and no decrement below 1 is ever emitted, with
\* or without another mutation of the line in flight.
C13_QuantitiesStayValid ==
  /\ [](/\ \A l \in Lines :
             LineMounted(l, cart, fetchers) =>
               LET q == optimisticQuantity(l, cart, fetchers)
               IN /\ q \in Nat
                  /\ prevQuantity(l, cart, fetchers) = (IF q >= 1 THEN q - 1 ELSE 0)
                  /\ nextQuantity(l, cart, fetchers) = q + 1
        /\ \A i \in 1..Len(fetchers) :
             fetchers[i].action = "LinesUpdate" => fetchers[i].quantity \in Nat
        /\ lastSent.form = "dec" => lastSent.quantity >= 1)
  /\ [][lastSent'.form = "dec" =>
          lastSent'.quantity = optimisticQuantity(lastSent'.line, cart, fetchers) - 1]_vars
  /\ [][lastSent'.form = "inc" =>
          lastSent'.quantity = optimisticQuantity(lastSent'.line, cart, fetchers) + 1]_vars

\* C13 witness: a decrement to 1 has just been emitted while an increment
\* of the same line is still in flight, and the line displays 1.
C13_Witness ==
  /\ lastSent.form = "dec"
  /\ lastSent.quantity = 1
  /\ \E i \in 1..Len(fetchers) :
       fetchers[i].form = "inc" /\ fetchers[i].line = lastSent.line
  /\ LineMounted(lastSent.line, cart, fetchers)
  /\ optimisticQuantity(lastSent.line, cart, fetchers) = 1

\* the money field the price-type flag selects; absent without line or cost
SelectedField(ln, pt) ==
  IF ~ln.present \/ ~ln.hasCost THEN NoMoney
  ELSE IF pt = "compareAt" THEN ln.compareAtAmountPerQuantity
  ELSE ln.totalAmount

\* C14 (as claimed): CartLinePrice shows the total amount for 'regular' and
\* the compare-at amount per quantity for 'compareAt', and renders nothing
\* if and only if the field the flag selects is absent.
C14_NothingIffSelectedAbsent ==
  priceShown.returned =>
    LET sel == SelectedField(priceLine, priceType)
    IN /\ ~priceShown.money <=> ~sel.present
       /\ priceShown.money => priceShown.data = sel

\* C14 (amended): CartLinePrice renders nothing if and only if the line or
\* its cost is missing, the amount per quantity or the total amount is
\* absent, or the field the flag selects is absent; otherwise it shows the
\* total amount for 'regular' (also when the flag is omitted) and the
\* compare-at amount per quantity for 'compareAt'.
C14_NothingIffGuardOrSelectedAbsent ==
  priceShown.returned =>
    LET sel == SelectedField(priceLine, priceType)
    IN /\ ~priceShown.money <=>
            \/ ~priceLine.present \/ ~priceLine.hasCost
            \/ ~priceLine.amountPerQuantity.present
            \/ ~priceLine.totalAmount.present
            \/ ~sel.present
       /\ priceShown.money =>
            /\ priceType \in {"omitted", "regular"} =>
                 priceShown.data = priceLine.totalAmount
            /\ priceType = "compareAt" =>
                 priceShown.data = priceLine.compareAtAmountPerQuantity

\* C14 witness: with the 'compareAt' flag and a compare-at amount present,
\* nothing is rendered because the amount per quantity is absent.
C14_Witness ==
  /\ priceShown = RendersNothing
  /\ priceType = "compareAt"
  /\ priceLine.compareAtAmountPerQuantity.present
  /\ priceLine.totalAmount.present
  /\ ~priceLine.amountPerQuantity.present

\* --------------------------------------------------------- Footer claims
\* C6: each submission starts with both messages cleared; a response with
\* ok = true shows the success message and leaves no error; a response with
\* ok = false shows its error string, or the generic fallback when it has
\* none.
C6_NewsletterMessages ==
  /\ [][issued' > issued => (message' = "" /\ error' = "")]_vars
  /\ [][fetcherData' # fetcherData =>
          IF fetcherData'.ok
          THEN message' = "Thank you for signing up!" /\ error' = ""
          ELSE /\ fetcherData'.error \in {"Invalid email", "Already subscribed"}
                    => error' = fetcherData'.error
               /\ fetcherData'.error \in {NoErrorField, ""}
                    => error' = "An error occurred while signing up."]_vars

\* C6 witness: the second submission has completed with ok = true.
C6_Witness ==
  /\ fetcherData.req = 2
  /\ fetcherData.ok
  /\ message = ThanksMessage
  /\ error = ""

\* C7 (as claimed): no request is issued while an earlier one is still
\* awaiting its response.
C7_NoRequestWhilePending ==
  [][issued' > issued => inFlight = 0]_vars

\* C10 (as claimed): every menu item, top-level or child, is text when its
\* `to` is "#" or "/" and a link otherwise.
C10_EveryItemTextOrLink ==
  rendered # NotRendered =>
    \A i \in 1..Len(footerMenu) :
      /\ rendered[i].trigger = (IF footerMenu[i].to \in {"#", "/"} THEN "text" ELSE "Link")
      /\ rendered[i].heading = (IF footerMenu[i].to \in {"#", "/"} THEN "text" ELSE "Link")
      /\ \A k \in 1..Len(footerMenu[i].items) :
           rendered[i].children[k] =
             (IF footerMenu[i].items[k].to \in {"#", "/"} THEN "text" ELSE "Link")

\* C10 (amended): every top-level menu item is text when its `to` is "#" or
\* "/" and a link otherwise, in the accordion trigger and in the heading;
\* every child item is a link whatever its `to`.
C10_TopLevelTextOrLink ==
  rendered # NotRendered =>
    /\ Len(rendered) = Len(footerMenu)
    /\ \A i \in 1..Len(footerMenu) :
         /\ rendered[i].trigger = (IF footerMenu[i].to \in {"#", "/"} THEN "text" ELSE "Link")
         /\ rendered[i].heading = (IF footerMenu[i].to \in {"#", "/"} THEN "text" ELSE "Link")
         /\ Len(rendered[i].children) = Len(footerMenu[i].items)
         /\ \A k \in 1..Len(footerMenu[i].items) : rendered[i].children[k] = "Link"

\* C10 witness: a rendered menu with a top-level "#" entry that has a "/"
\* child, next to a top-level entry with an ordinary path.
C10_Witness ==
  /\ rendered # NotRendered
  /\ \E i \in 1..Len(footerMenu) :
       /\ footerMenu[i].to = "#"
       /\ \E k \in 1..Len(footerMenu[i].items) : footerMenu[i].items[k].to = "/"
  /\ \E i \in 1..Len(footerMenu) : footerMenu[i].to = "/pages/about"

\* C16: the success message and the error message are never both shown.
C16_NeverBothMessages ==
  ~(message # "" /\ error # "")

\* C16 witness: a submission that succeeded has been followed by one that
\* failed; the error is shown and the success message is gone.
C16_Witness ==
  /\ prevData.req > 0 /\ prevData.ok
  /\ fetcherData.req > prevData.req /\ ~fetcherData.ok
  /\ error # ""
  /\ message = ""

====
